---- MODULE Spec2Model ----
(***************************************************************************)
(* Model of backend/src/executors/aaa.rs: the AaaExecutor adapter.         *)
(*                                                                         *)
(* A Rust &str is modelled as a sequence of characters, each character a   *)
(* one-character string; a character outside ASCII is written by its code  *)
(* point ("U+274C") and keeps its UTF-8 width (Utf8Len), because str::find *)
(* returns byte offsets and str slicing panics off a character boundary.   *)
(***************************************************************************)
EXTENDS Integers, Sequences, FiniteSets, TLC

VARIABLES executor, pc, logs, worktree_path, conversation,
          path, relative,
          tasks, op, task_id, task, calls, ret, ncalls

vars == <<executor, pc, logs, worktree_path, conversation,
          path, relative,
          tasks, op, task_id, task, calls, ret, ncalls>>

normVars == <<logs, worktree_path, conversation>>
pathVars == <<path, relative>>
spawnVars == <<tasks, op, task_id, task, calls, ret, ncalls>>

-----------------------------------------------------------------------------
(* Bounds of the explored inputs. *)

\* tool-usage markers in a generated log line
MaxMarkers == 2
\* lines in a generated multi-line log blob
MaxBlobLines == 3
\* chunks in a generated file path
MaxPathChunks == 4
\* calls of spawn / spawn_followup in one behaviour
MaxCalls == 2

-----------------------------------------------------------------------------
(* Option / absent values. *)

None == [some |-> FALSE]
Some(x) == [some |-> TRUE, value |-> x]

\* the unwinding of a Rust panic, as a value no input can produce
Panic == <<"!panic">>

-----------------------------------------------------------------------------
(* String literals of the source, character by character. *)

ErrorPrefix == <<"E", "r", "r", "o", "r", ":">>
\* the glyphs of lines 138 and 140
GlyphCross == <<"U+274C">>
GlyphCheck == <<"U+2705">>
GlyphRocket == <<"U+1F680">>
GlyphPackage == <<"U+1F4E6">>
UserInputPrefix == <<"U", "s", "e", "r", " ", "i", "n", "p", "u", "t", ":">>
EnterMessagePrefix == <<"E", "n", "t", "e", "r", " ", "y", "o", "u", "r", " ", "m", "e", "s", "s", "a", "g", "e", ":">>
ReadingFile == <<"R", "e", "a", "d", "i", "n", "g", " ", "f", "i", "l", "e", ":">>
WritingFile == <<"W", "r", "i", "t", "i", "n", "g", " ", "f", "i", "l", "e", ":">>
RunningCommand == <<"R", "u", "n", "n", "i", "n", "g", " ", "c", "o", "m", "m", "a", "n", "d", ":">>
SearchingFor == <<"S", "e", "a", "r", "c", "h", "i", "n", "g", " ", "f", "o", "r", ":">>
CreatingTask == <<"C", "r", "e", "a", "t", "i", "n", "g", " ", "t", "a", "s", "k", ":">>
FetchingURL == <<"F", "e", "t", "c", "h", "i", "n", "g", " ", "U", "R", "L", ":">>

-----------------------------------------------------------------------------
(* str primitives of the Rust standard library, as the source uses them. *)

\* UTF-8 encoded length of a character
Utf8Len(c) ==
    CASE c \in {"U+0085", "U+00A0"} -> 2
      [] c \in {"U+274C", "U+2705", "U+3000", "U+2028", "U+4E2D"} -> 3
      [] c \in {"U+1F680", "U+1F4E6"} -> 4
      [] OTHER -> 1

\* char::is_whitespace (the Unicode White_Space property)
IsWhitespace(c) ==
    c \in {" ", "\t", "\n", "\r", "\f", "U+000B", "U+0085", "U+00A0",
           "U+2028", "U+3000"}

RECURSIVE ByteLen(_)
\* str::len: the length in bytes
ByteLen(s) == IF s = <<>> THEN 0 ELSE Utf8Len(Head(s)) + ByteLen(Tail(s))

\* byte offset at which the k-th character starts (k = Len(s)+1: the end)
ByteOffset(s, k) == ByteLen(SubSeq(s, 1, k - 1))

\* str::starts_with(&str)
StartsWith(s, p) == Len(p) <= Len(s) /\ SubSeq(s, 1, Len(p)) = p

\* str::contains(&str)
Contains(s, m) ==
    \E i \in 1..(Len(s) - Len(m) + 1) :
        s[i] = m[1] /\ SubSeq(s, i, i + Len(m) - 1) = m

\* the index of the first character equal to c, 0 when there is none
FirstIndex(s, c) ==
    IF \E i \in 1..Len(s) : s[i] = c
      THEN CHOOSE i \in 1..Len(s) :
               s[i] = c /\ \A j \in 1..(i - 1) : s[j] # c
      ELSE 0

\* Some(byte offset) of the character at index i, None for index 0
OffsetOfIndex(s, i) == IF i = 0 THEN None ELSE Some(ByteOffset(s, i))

\* str::find(char): Some(byte offset of the first match) or None
Find(s, c) == OffsetOfIndex(s, FirstIndex(s, c))

\* the slice that starts at one of the character indexes ks, a panic when
\* there is none
SliceAtBoundary(s, ks) ==
    IF ks = {} THEN Panic ELSE SubSeq(s, CHOOSE k \in ks : TRUE, Len(s))

\* &s[b..]: the slice from byte offset b; panics when b is past the end or
\* not on a character boundary
SliceFrom(s, b) ==
    SliceAtBoundary(s, {k \in 1..(Len(s) + 1) : ByteOffset(s, k) = b})

RECURSIVE TrimStart(_)
\* str::trim_start
TrimStart(s) ==
    IF s = <<>> THEN s
    ELSE IF IsWhitespace(Head(s)) THEN TrimStart(Tail(s)) ELSE s

RECURSIVE TrimEnd(_)
\* str::trim_end
TrimEnd(s) ==
    IF s = <<>> THEN s
    ELSE IF IsWhitespace(s[Len(s)]) THEN TrimEnd(SubSeq(s, 1, Len(s) - 1))
    ELSE s

\* str::trim
Trim(s) == TrimEnd(TrimStart(s))

RECURSIVE SplitInclusive(_)
RECURSIVE SplitInclusiveAt(_, _)
\* str::split_inclusive('\n'): the pieces, each keeping its terminator
SplitInclusive(s) ==
    IF s = <<>> THEN <<>> ELSE SplitInclusiveAt(s, FirstIndex(s, "\n"))

\* the piece that ends with the line feed at index i, then the other pieces
SplitInclusiveAt(s, i) ==
    IF i = 0 THEN <<s>>
    ELSE <<SubSeq(s, 1, i)>> \o SplitInclusive(SubSeq(s, i + 1, Len(s)))

\* str::strip_suffix(char): Some(the rest) or None
StripSuffix(s, c) ==
    IF s # <<>> /\ s[Len(s)] = c THEN Some(SubSeq(s, 1, Len(s) - 1)) ELSE None

\* the second step of the closure of str::lines, on a line without its "\n"
StripCarriageReturn(l) ==
    IF StripSuffix(l, "\r").some THEN SubSeq(l, 1, Len(l) - 1) ELSE l

\* the closure of str::lines: strip one "\n", then one "\r" before it
StripLineEnding(line) ==
    IF StripSuffix(line, "\n").some
      THEN StripCarriageReturn(SubSeq(line, 1, Len(line) - 1))
      ELSE line

\* the map of str::lines over the pieces
MapLines(parts) == [k \in 1..Len(parts) |-> StripLineEnding(parts[k])]

\* str::lines
Lines(s) == MapLines(SplitInclusive(s))

-----------------------------------------------------------------------------
(* std::path::Path on a Unix host, as make_path_relative uses it. *)

Sep == "/"

RootDir == [kind |-> "RootDir"]
CurDir == [kind |-> "CurDir"]
ParentDir == [kind |-> "ParentDir"]
Normal(name) == [kind |-> "Normal", name |-> name]

\* Path::is_relative: on Unix a path is absolute iff it starts with the root
IsRelative(p) == ~(p # <<>> /\ Head(p) = Sep)

\* Path::components: the iterator before its first step
Components(p) ==
    [path |-> p, has_physical_root |-> (p # <<>> /\ Head(p) = Sep),
     front |-> "Prefix"]

\* Components::include_cur_dir: a leading "." of a relative path is kept
IncludeCurDir(it) ==
    /\ ~it.has_physical_root
    /\ it.path # <<>>
    /\ it.path[1] = "."
    /\ (Len(it.path) = 1 \/ it.path[2] = Sep)

\* Components::parse_single_component
ParseSingleComponent(comp) ==
    CASE comp = <<".">> -> None
      [] comp = <<".", ".">> -> Some(ParentDir)
      [] comp = <<>> -> None
      [] OTHER -> Some(Normal(comp))

\* the pair (size, component) for the text comp and extra separator bytes
ParsedComponent(comp, extra) ==
    [size |-> Len(comp) + extra, comp |-> ParseSingleComponent(comp)]

\* parse_next_component when the next separator is at index i (0: none)
ParseNextComponentAt(p, i) ==
    IF i = 0 THEN ParsedComponent(p, 0)
    ELSE ParsedComponent(SubSeq(p, 1, i - 1), 1)

\* Components::parse_next_component: the text up to the next separator
ParseNextComponent(p) == ParseNextComponentAt(p, FirstIndex(p, Sep))

\* the index of the last separator at or after position start + 1, or 0
LastSepFrom(p, start) ==
    IF \E i \in (start + 1)..Len(p) : p[i] = Sep
      THEN CHOOSE i \in (start + 1)..Len(p) :
               p[i] = Sep /\ \A j \in (i + 1)..Len(p) : p[j] # Sep
      ELSE 0

\* parse_next_component_back when the last separator is at index i (0: none)
ParseNextComponentBackAt(p, start, i) ==
    IF i = 0 THEN ParsedComponent(SubSeq(p, start + 1, Len(p)), 0)
    ELSE ParsedComponent(SubSeq(p, i + 1, Len(p)), 1)

\* Components::parse_next_component_back
ParseNextComponentBack(p, start) ==
    ParseNextComponentBackAt(p, start, LastSepFrom(p, start))

\* self.path = &self.path[n..]
Advance(it, n) == [it EXCEPT !.path = SubSeq(it.path, n + 1, Len(it.path))]

RECURSIVE ComponentsNext(_)
RECURSIVE ComponentsNextParsed(_, _)
\* Components::next: the next component and the advanced iterator
ComponentsNext(it) ==
    CASE it.front = "Done" -> [item |-> None, iter |-> it]
      [] it.front = "Prefix" ->
            ComponentsNext([it EXCEPT !.front = "StartDir"])
      [] it.front = "StartDir" ->
            IF it.has_physical_root
              THEN [item |-> Some(RootDir),
                    iter |-> Advance([it EXCEPT !.front = "Body"], 1)]
            ELSE IF IncludeCurDir(it)
              THEN [item |-> Some(CurDir),
                    iter |-> Advance([it EXCEPT !.front = "Body"], 1)]
            ELSE ComponentsNext([it EXCEPT !.front = "Body"])
      [] it.front = "Body" ->
            IF it.path # <<>>
              THEN ComponentsNextParsed(it, ParseNextComponent(it.path))
              ELSE ComponentsNext([it EXCEPT !.front = "Done"])

\* the State::Body arm of Components::next after parse_next_component
ComponentsNextParsed(it, pn) ==
    IF pn.comp.some
      THEN [item |-> pn.comp, iter |-> Advance(it, pn.size)]
      ELSE ComponentsNext(Advance(it, pn.size))

RECURSIVE IterAfter(_, _)
RECURSIVE IterAfterMatch(_, _, _)
\* iter_after: the iterator after the components of prefix, or None
IterAfter(iter, prefix) ==
    IterAfterMatch(iter, ComponentsNext(iter), ComponentsNext(prefix))

\* the match of iter_after on the next component x of the path and y of
\* the prefix
IterAfterMatch(iter, x, y) ==
    CASE x.item.some /\ y.item.some ->
            IF x.item.value = y.item.value
              THEN IterAfter(x.iter, y.iter)
              ELSE None
      [] x.item.some /\ ~y.item.some -> Some(iter)
      [] ~x.item.some /\ ~y.item.some -> Some(iter)
      [] ~x.item.some /\ y.item.some -> None

RECURSIVE TrimLeft(_)
RECURSIVE TrimLeftParsed(_, _)
\* Components::trim_left: drop leading separators and "." components
TrimLeft(p) ==
    IF p = <<>> THEN p ELSE TrimLeftParsed(p, ParseNextComponent(p))

\* the loop body of trim_left after parse_next_component
TrimLeftParsed(p, pn) ==
    IF pn.comp.some THEN p ELSE TrimLeft(SubSeq(p, pn.size + 1, Len(p)))

RECURSIVE TrimRight(_, _)
RECURSIVE TrimRightParsed(_, _, _)
\* Components::trim_right: drop trailing separators and "." components
TrimRight(p, len_before_body) ==
    IF Len(p) <= len_before_body THEN p
    ELSE TrimRightParsed(p, len_before_body,
                         ParseNextComponentBack(p, len_before_body))

\* the loop body of trim_right after parse_next_component_back
TrimRightParsed(p, len_before_body, pn) ==
    IF pn.comp.some THEN p
    ELSE TrimRight(SubSeq(p, 1, Len(p) - pn.size), len_before_body)

\* Components::len_before_body
LenBeforeBody(it) ==
    IF it.front \in {"Prefix", "StartDir"}
      THEN (IF it.has_physical_root THEN 1 ELSE 0)
           + (IF IncludeCurDir(it) THEN 1 ELSE 0)
      ELSE 0

\* Components::as_path: the text the iterator has not consumed
AsPath(it) ==
    TrimRight(IF it.front = "Body" THEN TrimLeft(it.path) ELSE it.path,
              LenBeforeBody(it))

\* the map of strip_prefix over the result of iter_after
StripPrefixOf(r) == IF r.some THEN Some(AsPath(r.value)) ELSE None

\* Path::strip_prefix: Some(remainder) or None for StripPrefixError
StripPrefix(p, base) ==
    StripPrefixOf(IterAfter(Components(p), Components(base)))

\* Path::to_string_lossy().to_string(): every path here comes from a &str,
\* so it holds no invalid UTF-8 and nothing is replaced
ToStringLossy(p) == p

-----------------------------------------------------------------------------
(* AaaExecutor: the helpers of lines 171-270. *)

\* the match of lines 265-268 on the result r of strip_prefix
MatchStripPrefix(p, r) == IF r.some THEN ToStringLossy(r.value) ELSE p

\* a relativization that compares the text of the two paths
make_path_relative_ByText(p, wt) ==
    IF IsRelative(p) THEN p
    ELSE IF StartsWith(p, wt)
      THEN TrimLeft(SubSeq(p, Len(wt) + 1, Len(p)))
    ELSE p

\* Convert absolute paths to relative paths based on worktree path
make_path_relative(p, wt) ==
    IF IsRelative(p) THEN p ELSE MatchStripPrefix(p, StripPrefix(p, wt))

\* .trim() on a slice, unless taking the slice panicked
TrimSlice(rest) == IF rest = Panic THEN Panic ELSE Trim(rest)

\* the if let of lines 220-224 on the result colon_pos of line.find(':')
AfterColonAt(line, colon_pos) ==
    IF colon_pos.some
      THEN TrimSlice(SliceFrom(line, colon_pos.value + 1))
      ELSE line

\* an extraction that cuts after the last colon of the line
AfterColon_LastColon(line) ==
    IF \E i \in 1..Len(line) : line[i] = ":"
      THEN Trim(SubSeq(line,
                       (CHOOSE i \in 1..Len(line) :
                            /\ line[i] = ":"
                            /\ \A j \in (i + 1)..Len(line) : line[j] # ":")
                         + 1,
                       Len(line)))
      ELSE line

\* an extraction that takes the character index of the colon for its byte
\* offset
AfterColon_CharIndex(line) ==
    IF FirstIndex(line, ":") # 0
      THEN TrimSlice(SliceFrom(line, (FirstIndex(line, ":") - 1) + 1))
      ELSE line

\* line[colon_pos + 1..].trim().to_string(), or the line without a colon
AfterColon(line) == AfterColonAt(line, Find(line, ":"))

\* make_path_relative on the extracted text, unless the slice panicked
RelativizeSlice(rest, wt) ==
    IF rest = Panic THEN Panic ELSE make_path_relative(rest, wt)

\* Extract file path from a log line
extract_path_from_line(line, wt) ==
    IF Find(line, ":").some
      THEN RelativizeSlice(AfterColon(line), wt)
      ELSE line

\* Extract command from a log line
extract_command_from_line(line) == AfterColon(line)

\* Extract search query from a log line
extract_query_from_line(line) == AfterColon(line)

\* Extract task description from a log line
extract_description_from_line(line) == AfterColon(line)

\* Extract URL from a log line
extract_url_from_line(line) == AfterColon(line)

\* Check if a line indicates tool usage
is_tool_usage(line) ==
    \/ Contains(line, ReadingFile)
    \/ Contains(line, WritingFile)
    \/ Contains(line, RunningCommand)
    \/ Contains(line, SearchingFor)
    \/ Contains(line, CreatingTask)
    \/ Contains(line, FetchingURL)

\* a dispatch table that lacks the row of "Fetching URL:"
extract_tool_info_NoFetch(line, wt) ==
    IF Contains(line, ReadingFile)
      THEN [tool_name |-> "file_read",
            action_type |-> [variant |-> "FileRead",
                             path |-> extract_path_from_line(line, wt)]]
    ELSE IF Contains(line, WritingFile)
      THEN [tool_name |-> "file_write",
            action_type |-> [variant |-> "FileWrite",
                             path |-> extract_path_from_line(line, wt)]]
    ELSE IF Contains(line, RunningCommand)
      THEN [tool_name |-> "command_run",
            action_type |-> [variant |-> "CommandRun",
                             command |-> extract_command_from_line(line)]]
    ELSE IF Contains(line, SearchingFor)
      THEN [tool_name |-> "search",
            action_type |-> [variant |-> "Search",
                             query |-> extract_query_from_line(line)]]
    ELSE IF Contains(line, CreatingTask)
      THEN [tool_name |-> "task_create",
            action_type |-> [variant |-> "TaskCreate",
                             description |-> extract_description_from_line(line)]]
    ELSE [tool_name |-> "unknown",
          action_type |-> [variant |-> "Other", description |-> line]]

\* a dispatch that tests "Writing file:" before "Reading file:"
extract_tool_info_WriteFirst(line, wt) ==
    IF Contains(line, WritingFile)
      THEN [tool_name |-> "file_write",
            action_type |-> [variant |-> "FileWrite",
                             path |-> extract_path_from_line(line, wt)]]
    ELSE IF Contains(line, ReadingFile)
      THEN [tool_name |-> "file_read",
            action_type |-> [variant |-> "FileRead",
                             path |-> extract_path_from_line(line, wt)]]
    ELSE IF Contains(line, RunningCommand)
      THEN [tool_name |-> "command_run",
            action_type |-> [variant |-> "CommandRun",
                             command |-> extract_command_from_line(line)]]
    ELSE IF Contains(line, SearchingFor)
      THEN [tool_name |-> "search",
            action_type |-> [variant |-> "Search",
                             query |-> extract_query_from_line(line)]]
    ELSE IF Contains(line, CreatingTask)
      THEN [tool_name |-> "task_create",
            action_type |-> [variant |-> "TaskCreate",
                             description |-> extract_description_from_line(line)]]
    ELSE IF Contains(line, FetchingURL)
      THEN [tool_name |-> "web_fetch",
            action_type |-> [variant |-> "WebFetch",
                             url |-> extract_url_from_line(line)]]
    ELSE [tool_name |-> "unknown",
          action_type |-> [variant |-> "Other", description |-> line]]

\* Extract tool information from a line
extract_tool_info(line, wt) ==
    IF Contains(line, ReadingFile)
      THEN [tool_name |-> "file_read",
            action_type |-> [variant |-> "FileRead",
                             path |-> extract_path_from_line(line, wt)]]
    ELSE IF Contains(line, WritingFile)
      THEN [tool_name |-> "file_write",
            action_type |-> [variant |-> "FileWrite",
                             path |-> extract_path_from_line(line, wt)]]
    ELSE IF Contains(line, RunningCommand)
      THEN [tool_name |-> "command_run",
            action_type |-> [variant |-> "CommandRun",
                             command |-> extract_command_from_line(line)]]
    ELSE IF Contains(line, SearchingFor)
      THEN [tool_name |-> "search",
            action_type |-> [variant |-> "Search",
                             query |-> extract_query_from_line(line)]]
    ELSE IF Contains(line, CreatingTask)
      THEN [tool_name |-> "task_create",
            action_type |-> [variant |-> "TaskCreate",
                             description |-> extract_description_from_line(line)]]
    ELSE IF Contains(line, FetchingURL)
      THEN [tool_name |-> "web_fetch",
            action_type |-> [variant |-> "WebFetch",
                             url |-> extract_url_from_line(line)]]
    ELSE [tool_name |-> "unknown",
          action_type |-> [variant |-> "Other", description |-> line]]

\* the string an ActionType carries
ActionPayload(a) ==
    CASE a.variant \in {"FileRead", "FileWrite"} -> a.path
      [] a.variant = "CommandRun" -> a.command
      [] a.variant = "Search" -> a.query
      [] a.variant \in {"TaskCreate", "Other"} -> a.description
      [] a.variant = "WebFetch" -> a.url

\* NormalizedEntryType::ToolUse { tool_name, action_type } (line 147)
ToolUse(info) ==
    [kind |-> "ToolUse", tool_name |-> info.tool_name,
     action_type |-> info.action_type]

\* a classification that tests for tool usage before the user prefixes
entry_type_of_ToolFirst(trimmed, wt) ==
    IF StartsWith(trimmed, ErrorPrefix) \/ StartsWith(trimmed, GlyphCross)
      THEN [kind |-> "SystemMessage"]
    ELSE IF \/ StartsWith(trimmed, GlyphCheck)
            \/ StartsWith(trimmed, GlyphRocket)
            \/ StartsWith(trimmed, GlyphPackage)
      THEN [kind |-> "SystemMessage"]
    ELSE IF is_tool_usage(trimmed)
      THEN ToolUse(extract_tool_info(trimmed, wt))
    ELSE IF \/ StartsWith(trimmed, UserInputPrefix)
            \/ StartsWith(trimmed, EnterMessagePrefix)
      THEN [kind |-> "UserMessage"]
    ELSE [kind |-> "AssistantMessage"]

\* the if-chain of lines 138-151
entry_type_of(trimmed, wt) ==
    IF StartsWith(trimmed, ErrorPrefix) \/ StartsWith(trimmed, GlyphCross)
      THEN [kind |-> "SystemMessage"]
    ELSE IF \/ StartsWith(trimmed, GlyphCheck)
            \/ StartsWith(trimmed, GlyphRocket)
            \/ StartsWith(trimmed, GlyphPackage)
      THEN [kind |-> "SystemMessage"]
    ELSE IF \/ StartsWith(trimmed, UserInputPrefix)
            \/ StartsWith(trimmed, EnterMessagePrefix)
      THEN [kind |-> "UserMessage"]
    ELSE IF is_tool_usage(trimmed)
      THEN ToolUse(extract_tool_info(trimmed, wt))
    ELSE [kind |-> "AssistantMessage"]

\* a blank test on the raw line instead of the trimmed one
SkipsLine_Untrimmed(line, trimmed) == line = <<>>

\* whether the loop body skips the line (lines 132-135)
SkipsLine(line, trimmed) == trimmed = <<>>

\* the NormalizedEntry of lines 153-158
Entry(trimmed, wt) ==
    [timestamp |-> None,
     entry_type |-> entry_type_of(trimmed, wt),
     content |-> trimmed,
     metadata |-> None]

RECURSIVE PushEntries_BreakOnBlank(_, _, _)
\* a loop that stops at the first blank line instead of skipping it
PushEntries_BreakOnBlank(lines, k, wt) ==
    IF k > Len(lines) THEN <<>>
    ELSE IF SkipsLine(lines[k], Trim(lines[k])) THEN <<>>
    ELSE <<Entry(Trim(lines[k]), wt)>>
         \o PushEntries_BreakOnBlank(lines, k + 1, wt)

RECURSIVE PushEntries(_, _, _)
\* the for loop of lines 131-159 over the lines from index k on
PushEntries(lines, k, wt) ==
    IF k > Len(lines) THEN <<>>
    ELSE IF SkipsLine(lines[k], Trim(lines[k]))
      THEN PushEntries(lines, k + 1, wt)
    ELSE <<Entry(Trim(lines[k]), wt)>> \o PushEntries(lines, k + 1, wt)

\* whether building the entry panicked
EntryPanicked(e) ==
    e.entry_type.kind = "ToolUse"
    /\ ActionPayload(e.entry_type.action_type) = Panic

\* Ok(NormalizedConversation { .. }) of lines 161-167, or the panic that
\* unwound out of the loop
ConversationOf(self, entries) ==
    IF \E i \in 1..Len(entries) : EntryPanicked(entries[i])
      THEN [tag |-> "Panic"]
      ELSE [tag |-> "Ok",
            value |-> [entries |-> entries,
                       session_id |-> None,
                       executor_type |-> self.executor_type,
                       prompt |-> None,
                       summary |-> None]]

\* AaaExecutor::normalize_logs
normalize_logs(self, text, wt) ==
    ConversationOf(self, PushEntries(Lines(text), 1, wt))

\* AaaExecutor::new
new == [executor_type |-> "AAA", command |-> "aaa"]

\* AaaExecutor::with_command
with_command(executor_type, command) ==
    [executor_type |-> executor_type, command |-> command]

-----------------------------------------------------------------------------
(* Inputs. *)

TmpWt == <<"/", "t", "m", "p", "/", "w", "t">>
SrcMainX == <<"s", "r", "c", "/", "m", "a", "i", "n", ".", "x">>
NpmInstall == <<"n", "p", "m", " ", "i", "n", "s", "t", "a", "l", "l">>
RegularMessage == <<"T", "h", "i", "s", " ", "i", "s", " ", "j", "u", "s", "t", " ", "a", " ", "r", "e", "g", "u", "l", "a", "r", " ", "m", "e", "s", "s", "a", "g", "e">>

RECURSIVE Flatten(_)
\* the concatenation of a sequence of strings
Flatten(ss) == IF ss = <<>> THEN <<>> ELSE Head(ss) \o Flatten(Tail(ss))

\* all concatenations of at most n chunks
ChunkStrings(chunks, n) ==
    {Flatten(cs) : cs \in UNION {[1..k -> chunks] : k \in 0..n}}

\* the six tool-usage markers
Markers ==
    {ReadingFile, WritingFile, RunningCommand, SearchingFor, CreatingTask,
     FetchingURL}

\* what a generated log line starts with: the prefixes of lines 138-142,
\* plain text, text with a colon, and a multi-byte character with a colon
LinePrefixes ==
    {<<>>, ErrorPrefix, GlyphCross, GlyphCheck, GlyphRocket, GlyphPackage,
     UserInputPrefix, EnterMessagePrefix,
     <<" ">>, <<"x", " ">>, <<"x", ":">>, <<"U+4E2D", ":">>}

\* what a generated log line ends with
LinePayloads == {<<>>, <<" ", "x">>, <<" ", "x", ":", "x", " ">>}

\* a prefix, at most MaxMarkers markers, a payload
LineInputs ==
    {pre \o mid \o post :
        pre \in LinePrefixes,
        mid \in ChunkStrings(Markers, MaxMarkers),
        post \in LinePayloads}

\* the lines multi-line blobs are generated from
BlobLines ==
    {<<>>, <<" ">>, <<"x">>, <<" ", "x", "U+3000">>, <<"x", "\r">>,
     ReadingFile \o <<" ", "x">>}

RECURSIVE JoinLines(_)
\* the lines, each followed by a line feed but the last
JoinLines(ls) ==
    IF ls = <<>> THEN <<>>
    ELSE IF Len(ls) = 1 THEN Head(ls)
    ELSE Head(ls) \o <<"\n">> \o JoinLines(Tail(ls))

\* at most MaxBlobLines lines, with or without a final line feed
BlobInputs ==
    {JoinLines(ls) \o end :
        ls \in UNION {[1..k -> BlobLines] : k \in 0..MaxBlobLines},
        end \in {<<>>, <<"\n">>}}

\* the scenarios of the tests and of the documentation
ScenarioLogs ==
    {ReadingFile \o <<" ">> \o TmpWt \o <<"/">> \o SrcMainX,
     ReadingFile \o <<" ">> \o SrcMainX,
     WritingFile \o <<" ">> \o TmpWt \o <<"/">> \o SrcMainX,
     RunningCommand \o <<" ">> \o NpmInstall,
     RegularMessage}

NormalizeInputs == LineInputs \cup BlobInputs \cup ScenarioLogs

\* the executors the constructors build
Executors == {new, with_command("CUSTOM", "custom-aaa")}

-----------------------------------------------------------------------------
(* The operations. *)

\* values of the variables an operation does not use
IdleSpawn ==
    /\ tasks = <<>>
    /\ op = "none"
    /\ task_id = 0
    /\ task = None
    /\ calls = <<>>
    /\ ret = None
    /\ ncalls = 0

IdlePath ==
    /\ path = <<>>
    /\ relative = None

\* every generated line with the default executor, the blobs and the
\* scenarios with a custom one too
InitNormalize ==
    /\ logs \in NormalizeInputs
    /\ executor \in IF logs \in BlobInputs \cup ScenarioLogs
                       THEN Executors
                       ELSE {new}
    /\ pc = "ready"
    /\ worktree_path = TmpWt
    /\ conversation = None
    /\ IdlePath
    /\ IdleSpawn

\* Executor::normalize_logs(&self, logs, worktree_path)
NormalizeLogs ==
    /\ pc = "ready"
    /\ conversation' = Some(normalize_logs(executor, logs, worktree_path))
    /\ pc' = "normalized"
    /\ UNCHANGED <<executor, logs, worktree_path>>
    /\ UNCHANGED pathVars
    /\ UNCHANGED spawnVars

NextNormalize == NormalizeLogs

SpecNormalize == InitNormalize /\ [][NextNormalize]_vars

\* the conversation record normalize_logs returned
Conv == conversation.value.value

Returned == pc = "normalized" /\ conversation.some

ReturnedOk == Returned /\ conversation.value.tag = "Ok"

-----------------------------------------------------------------------------
(* make_path_relative on generated paths and roots (SpecPath). *)

\* the pieces paths and roots are generated from
PathChunks == {<<"/">>, <<".">>, <<"w", "t">>, <<"a">>}

Paths == ChunkStrings(PathChunks, MaxPathChunks)

\* worktree roots: a worktree root is the path of a directory, so it is
\* never empty
Roots ==
    {<<"/">>, <<"/", "w", "t">>, <<"/", "w", "t", "/">>,
     <<"/", "/", "w", "t">>, <<"/", "w", "t", "/", ".">>,
     <<"/", "a">>, <<"/", "w", "t", "/", "a">>, <<"/", ".", ".">>,
     <<"w", "t">>, <<".">>, TmpWt}

\* a log in which the agent reads and then writes the file
FileLog(p) ==
    ReadingFile \o <<" ">> \o p \o <<"\n">> \o WritingFile \o <<" ">> \o p

InitPath ==
    /\ executor = new
    /\ pc = "ready"
    /\ worktree_path \in Roots
    /\ path \in Paths \cup {TmpWt \o <<"/">> \o SrcMainX, SrcMainX}
    /\ logs = FileLog(path)
    /\ conversation = None
    /\ relative = None
    /\ IdleSpawn

\* AaaExecutor::make_path_relative(&self, path, worktree_path)
MakePathRelative ==
    /\ ~relative.some
    /\ relative' = Some(make_path_relative(path, worktree_path))
    /\ UNCHANGED <<executor, pc, path>>
    /\ UNCHANGED normVars
    /\ UNCHANGED spawnVars

NextPath == MakePathRelative \/ NormalizeLogs

SpecPath == InitPath /\ [][NextPath]_vars

-----------------------------------------------------------------------------
(* spawn and spawn_followup (SpecSpawn). *)

TaskIds == {1, 2}

Titles == {"title"}

Descriptions == {None, Some("description")}

TaskRecords ==
    {[title |-> t, description |-> d] : t \in Titles, d \in Descriptions}

Prompts == {"prompt"}

SessionIds == {"session"}

\* the format! of lines 59-69, as its literal and interpolated pieces
problem_statement_of(t) ==
    IF t.description.some
      THEN <<"Task: ", t.title, " - Description: ", t.description.value,
             " - Please help me implement this task in the codebase. Analyze the current code structure and make the necessary changes to fulfill the requirements.">>
      ELSE <<"Task: ", t.title,
             " - Please help me implement this task in the codebase. Analyze the current code structure and make the necessary changes to fulfill the requirements.">>

\* the CommandRunner spawn builds (lines 72-81)
spawn_command(self, t, wt) ==
    [command |-> self.command,
     args |-> <<"--workspace", wt, "--problem-statement",
                problem_statement_of(t), "--minimize-stdout-logs">>,
     stdin |-> None,
     working_dir |-> wt,
     env |-> {<<"NODE_NO_WARNINGS", "1">>}]

\* the CommandRunner spawn_followup builds (lines 101-109)
followup_command(self, prompt, wt) ==
    [command |-> self.command,
     args |-> <<"--workspace", wt, "--minimize-stdout-logs">>,
     stdin |-> Some(prompt),
     working_dir |-> wt,
     env |-> {<<"NODE_NO_WARNINGS", "1">>}]

\* SpawnContext::from_command
from_command(cmd, executor_type) ==
    [executor_type |-> executor_type, command |-> cmd.command,
     args |-> cmd.args, working_dir |-> cmd.working_dir,
     task_id |-> None, task_title |-> None, additional_context |-> None]

\* SpawnContext::with_task
with_task(ctx, id, title) ==
    [ctx EXCEPT !.task_id = Some(id), !.task_title = title]

\* SpawnContext::with_context
with_context(ctx, text) == [ctx EXCEPT !.additional_context = Some(text)]

\* SpawnContext::spawn_error
spawn_error(ctx, e) ==
    [kind |-> "SpawnFailed", error |-> e, context |-> ctx]

\* the closure of lines 83-88
spawn_map_err(self, cmd, id, t, e) ==
    spawn_error(
        with_context(
            with_task(from_command(cmd, self.executor_type), id,
                      Some(t.title)),
            <<self.executor_type, " CLI execution for new task">>),
        e)

\* the closure of lines 111-118
followup_map_err(self, cmd, e) ==
    spawn_error(
        with_context(from_command(cmd, self.executor_type),
                     <<self.executor_type, " CLI followup execution">>),
        e)

Ok(v) == [tag |-> "Ok", value |-> v]
Err(e) == [tag |-> "Err", error |-> e]

FindCall(result) == [fn |-> "Task::find_by_id", result |-> result]
StartCall(result) == [fn |-> "CommandRunner::start", result |-> result]

InitSpawn ==
    /\ executor \in Executors
    /\ pc = "idle"
    /\ tasks \in [TaskIds -> {None} \cup {Some(t) : t \in TaskRecords}]
    /\ op = "none"
    /\ task_id = 0
    /\ task = None
    /\ calls = <<>>
    /\ ret = None
    /\ ncalls = 0
    /\ worktree_path = TmpWt
    /\ logs = <<>>
    /\ conversation = None
    /\ IdlePath

\* spawn up to its first await: Task::find_by_id(pool, task_id).await? and
\* .ok_or(ExecutorError::TaskNotFound)? (lines 55-57)
Spawn_FindTask ==
    /\ pc = "idle"
    /\ ncalls < MaxCalls
    /\ \E id \in TaskIds, db \in {"up", "down"} :
          /\ op' = "spawn"
          /\ task_id' = id
          /\ ncalls' = ncalls + 1
          /\ IF db = "down"
               THEN /\ calls' = <<FindCall("Err")>>
                    /\ ret' = Some(Err([kind |-> "Sqlx"]))
                    /\ task' = None
                    /\ pc' = "returned"
             ELSE IF ~tasks[id].some
               THEN /\ calls' = <<FindCall("Ok(None)")>>
                    /\ ret' = Some(Err([kind |-> "TaskNotFound"]))
                    /\ task' = None
                    /\ pc' = "returned"
             ELSE /\ calls' = <<FindCall("Ok(Some)")>>
                  /\ ret' = None
                  /\ task' = tasks[id]
                  /\ pc' = "spawn_start"
    /\ UNCHANGED <<executor, tasks, logs, worktree_path, conversation>>
    /\ UNCHANGED pathVars

\* a spawn that tries the launcher a second time after a failure
Spawn_Start_Retry ==
    /\ pc = "spawn_start"
    /\ LET cmd == spawn_command(executor, task.value, worktree_path) IN
       \E first \in {"Ok", "Err"}, second \in {"Ok", "Err"} :
          /\ calls' = IF first = "Ok"
                        THEN Append(calls, StartCall("Ok"))
                        ELSE calls \o <<StartCall("Err"), StartCall(second)>>
          /\ ret' = IF first = "Ok" \/ second = "Ok"
                      THEN Some(Ok([process |-> cmd]))
                      ELSE Some(Err(spawn_map_err(executor, cmd, task_id,
                                                  task.value, "io error")))
    /\ pc' = "returned"
    /\ UNCHANGED <<executor, tasks, op, task_id, task, ncalls,
                   logs, worktree_path, conversation>>
    /\ UNCHANGED pathVars

\* spawn after the lookup: build the command, command.start().await and
\* map_err (lines 59-89)
Spawn_Start ==
    /\ pc = "spawn_start"
    /\ LET cmd == spawn_command(executor, task.value, worktree_path) IN
       \E started \in {"Ok", "Err"} :
          /\ calls' = Append(calls, StartCall(started))
          /\ ret' = IF started = "Ok"
                      THEN Some(Ok([process |-> cmd]))
                      ELSE Some(Err(spawn_map_err(executor, cmd, task_id,
                                                  task.value, "io error")))
    /\ pc' = "returned"
    /\ UNCHANGED <<executor, tasks, op, task_id, task, ncalls,
                   logs, worktree_path, conversation>>
    /\ UNCHANGED pathVars

\* spawn_followup: build the command, command.start().await and map_err
\* (lines 92-121)
SpawnFollowup ==
    /\ pc = "idle"
    /\ ncalls < MaxCalls
    /\ \E id \in TaskIds, session_id \in SessionIds, prompt \in Prompts,
          started \in {"Ok", "Err"} :
          LET cmd == followup_command(executor, prompt, worktree_path) IN
          /\ op' = "spawn_followup"
          /\ task_id' = id
          /\ task' = None
          /\ ncalls' = ncalls + 1
          /\ calls' = <<StartCall(started)>>
          /\ ret' = IF started = "Ok"
                      THEN Some(Ok([process |-> cmd]))
                      ELSE Some(Err(followup_map_err(executor, cmd,
                                                     "io error")))
    /\ pc' = "returned"
    /\ UNCHANGED <<executor, tasks, logs, worktree_path, conversation>>
    /\ UNCHANGED pathVars

\* the caller takes the result; the executor is ready for the next call
CallerResumes ==
    /\ pc = "returned"
    /\ pc' = "idle"
    /\ UNCHANGED <<executor, tasks, op, task_id, task, calls, ret, ncalls,
                   logs, worktree_path, conversation>>
    /\ UNCHANGED pathVars

NextSpawn == Spawn_FindTask \/ Spawn_Start \/ SpawnFollowup \/ CallerResumes

SpecSpawn == InitSpawn /\ [][NextSpawn]_vars

-----------------------------------------------------------------------------
(* Reference notions the properties are stated with, defined by position   *)
(* in the input text and not by the steps of the code.                     *)

\* positions of the characters of s that are not whitespace
NonWhitespace(s) == {i \in 1..Len(s) : ~IsWhitespace(s[i])}

\* the least and the greatest element of a non-empty set of positions
Least(set) == CHOOSE i \in set : \A j \in set : i <= j
Greatest(set) == CHOOSE i \in set : \A j \in set : j <= i

\* s from the first to the last of the positions ps, empty without any
Between(s, ps) ==
    IF ps = {} THEN <<>> ELSE SubSeq(s, Least(ps), Greatest(ps))

\* s without its leading and trailing whitespace
Trimmed(s) == Between(s, NonWhitespace(s))

\* positions at which a line of s starts
LineStarts(s) == {i \in 1..Len(s) : i = 1 \/ s[i - 1] = "\n"}

\* s from position i up to the first of the positions stops, or to its end
UpTo(s, i, stops) ==
    IF stops = {} THEN SubSeq(s, i, Len(s))
    ELSE SubSeq(s, i, Least(stops) - 1)

\* the line of s that starts at position i, without its line feed
LineAt(s, i) == UpTo(s, i, {j \in i..Len(s) : s[j] = "\n"})

\* starts of the lines that are not blank
NonBlankStarts(s) ==
    {i \in LineStarts(s) : NonWhitespace(LineAt(s, i)) # {}}

\* the k-th smallest element of a set of positions
Nth(set, k) == CHOOSE i \in set : Cardinality({j \in set : j < i}) = k - 1

\* the trimmed lines of s that start at the positions nb, in order
TrimmedLinesAt(s, nb) ==
    [k \in 1..Cardinality(nb) |-> Trimmed(LineAt(s, Nth(nb, k)))]

\* the trimmed non-blank lines of s in input order
TrimmedNonBlankLines(s) == TrimmedLinesAt(s, NonBlankStarts(s))

\* the content of each entry, in order
Contents(entries) == [k \in 1..Len(entries) |-> entries[k].content]

\* the six tool-usage markers in the order of the dispatch table
MarkerTable ==
    <<[marker |-> ReadingFile, tool_name |-> "file_read", variant |-> "FileRead"],
      [marker |-> WritingFile, tool_name |-> "file_write", variant |-> "FileWrite"],
      [marker |-> RunningCommand, tool_name |-> "command_run", variant |-> "CommandRun"],
      [marker |-> SearchingFor, tool_name |-> "search", variant |-> "Search"],
      [marker |-> CreatingTask, tool_name |-> "task_create", variant |-> "TaskCreate"],
      [marker |-> FetchingURL, tool_name |-> "web_fetch", variant |-> "WebFetch"]>>

\* rows of the table whose marker occurs in the line
MatchingRows(line) ==
    {k \in 1..Len(MarkerTable) : Contains(line, MarkerTable[k].marker)}

\* the first matching row in table order
FirstRow(line) ==
    CHOOSE k \in MatchingRows(line) : \A j \in MatchingRows(line) : k <= j

\* the first position at which m occurs in s
PositionOf(s, m) ==
    Least({i \in 1..Len(s) : s[i] = m[1] /\ SubSeq(s, i, i + Len(m) - 1) = m})

HasErrorPrefix(c) == StartsWith(c, ErrorPrefix) \/ StartsWith(c, GlyphCross)

HasProgressPrefix(c) ==
    \E g \in {GlyphCheck, GlyphRocket, GlyphPackage} : StartsWith(c, g)

HasUserPrefix(c) ==
    StartsWith(c, UserInputPrefix) \/ StartsWith(c, EnterMessagePrefix)

\* the kind the ordered rule list assigns to a trimmed line
RuleKind(c) ==
    CASE HasErrorPrefix(c) -> "SystemMessage"
      [] ~HasErrorPrefix(c) /\ HasProgressPrefix(c) -> "SystemMessage"
      [] ~HasErrorPrefix(c) /\ ~HasProgressPrefix(c) /\ HasUserPrefix(c) ->
            "UserMessage"
      [] /\ ~HasErrorPrefix(c) /\ ~HasProgressPrefix(c) /\ ~HasUserPrefix(c)
         /\ MatchingRows(c) # {} -> "ToolUse"
      [] OTHER -> "AssistantMessage"

\* the text after the first colon of the line, trimmed
AfterFirstColon(c) ==
    LET colons == {i \in 1..Len(c) : c[i] = ":"}
        first == CHOOSE i \in colons : \A j \in colons : i <= j
    IN Trimmed(SubSeq(c, first + 1, Len(c)))

\* the ToolUse entries of the returned record
ToolUseEntries ==
    {k \in 1..Len(Conv.entries) : Conv.entries[k].entry_type.kind = "ToolUse"}

-----------------------------------------------------------------------------
(* Properties of normalize_logs (SpecNormalize). *)

\* C1: the entries are exactly the trimmed non-blank lines of the input, in
\* input order; blank and whitespace-only lines produce no entry.
C1_EntriesAreTrimmedNonBlankLines ==
    Returned =>
        /\ conversation.value.tag = "Ok"
        /\ Contents(Conv.entries) = TrimmedNonBlankLines(logs)
        /\ Len(Conv.entries) = Cardinality(NonBlankStarts(logs))

\* C1 witness: two entries came out of a blob with a blank line in it and
\* whitespace around a line.
C1_Witness ==
    /\ ReturnedOk
    /\ Len(Conv.entries) = 2
    /\ Cardinality(LineStarts(logs)) > 2
    /\ \E i \in NonBlankStarts(logs) :
           LineAt(logs, i) # Trimmed(LineAt(logs, i))

\* C2: the entry kind is the one the ordered rule list gives, first match
\* wins; an error or user-input prefix beats a tool-usage marker.
C2_FirstMatchWins ==
    Returned =>
        \A k \in 1..Len(Conv.entries) :
            LET e == Conv.entries[k] IN
            /\ e.entry_type.kind = RuleKind(e.content)
            /\ (HasErrorPrefix(e.content) /\ MatchingRows(e.content) # {}
                   => e.entry_type.kind = "SystemMessage")
            /\ (HasUserPrefix(e.content) /\ MatchingRows(e.content) # {}
                   => e.entry_type.kind = "UserMessage")

\* C2 witness: a line with a user-input prefix and a tool-usage marker was
\* classified, and so was one with an error prefix and a marker.
C2_Witness ==
    /\ ReturnedOk
    /\ \E k \in 1..Len(Conv.entries) :
           LET e == Conv.entries[k] IN
           /\ HasUserPrefix(e.content)
           /\ MatchingRows(e.content) # {}
           /\ e.entry_type.kind = "UserMessage"

\* C3: whenever is_tool_usage holds of a line, extract_tool_info matches one
\* of the six markers; no entry has tool_name "unknown" or action Other.
C3_PredicateAndDispatchInSync ==
    Returned =>
        \A k \in 1..Len(Conv.entries) :
            /\ Conv.entries[k].entry_type.kind = "ToolUse" =>
                   /\ Conv.entries[k].entry_type.tool_name # "unknown"
                   /\ Conv.entries[k].entry_type.action_type.variant # "Other"
            /\ is_tool_usage(Conv.entries[k].content) =>
                   extract_tool_info(Conv.entries[k].content,
                                     worktree_path).tool_name # "unknown"

\* C3 witness: a line whose only marker is the last one of the table became a
\* ToolUse entry.
C3_Witness ==
    /\ ReturnedOk
    /\ \E k \in ToolUseEntries :
           /\ MatchingRows(Conv.entries[k].content) = {6}
           /\ Conv.entries[k].entry_type.tool_name = "web_fetch"

\* C4: the tool is that of the first marker in table order the line
\* contains, wherever the markers stand in the line, and tool_name and
\* action variant pair as in the table.
C4_TableOrderPrecedence ==
    Returned =>
        \A k \in ToolUseEntries :
            LET e == Conv.entries[k]
                row == MarkerTable[FirstRow(e.content)]
            IN /\ e.entry_type.tool_name = row.tool_name
               /\ e.entry_type.action_type.variant = row.variant

\* C4 witness: a line holds two markers, the one later in the table standing
\* earlier in the line.
C4_Witness ==
    /\ ReturnedOk
    /\ \E k \in ToolUseEntries :
           LET c == Conv.entries[k].content IN
           /\ Cardinality(MatchingRows(c)) = 2
           /\ \E j \in MatchingRows(c) :
                  /\ j > FirstRow(c)
                  /\ PositionOf(c, MarkerTable[j].marker)
                       < PositionOf(c, MarkerTable[FirstRow(c)].marker)

\* C5: the payload of a ToolUse entry is the trimmed text after the first
\* colon of the line (relativized for a path), also when that colon stands
\* before the marker; when the marker starts the line it is the text after
\* the marker.
C5_PayloadAfterFirstColon ==
    Returned =>
        \A k \in ToolUseEntries :
            LET e == Conv.entries[k]
                a == e.entry_type.action_type
                m == MarkerTable[FirstRow(e.content)].marker
                after == IF a.variant \in {"FileRead", "FileWrite"}
                           THEN make_path_relative(AfterFirstColon(e.content),
                                                   worktree_path)
                           ELSE AfterFirstColon(e.content)
            IN /\ ActionPayload(a) = after
               /\ StartsWith(e.content, m) =>
                      AfterFirstColon(e.content)
                        = Trimmed(SubSeq(e.content, Len(m) + 1,
                                         Len(e.content)))

\* C5 witness: the first colon of a command line stands before its marker
\* and text follows the marker.
C5_Witness ==
    /\ ReturnedOk
    /\ \E k \in ToolUseEntries :
           LET e == Conv.entries[k]
               m == MarkerTable[FirstRow(e.content)].marker
           IN /\ e.entry_type.action_type.variant = "CommandRun"
              /\ FirstIndex(e.content, ":") < PositionOf(e.content, m)
              /\ e.entry_type.action_type.command # <<>>

\* C7: normalize_logs always returns Ok with session_id, prompt and summary
\* unset, the configured executor_type, entries without timestamp and
\* metadata and of one of the four kinds; blank input gives no entry.
C7_NormalizeIsTotal ==
    Returned =>
        /\ conversation.value.tag = "Ok"
        /\ Conv.session_id = None
        /\ Conv.prompt = None
        /\ Conv.summary = None
        /\ Conv.executor_type = executor.executor_type
        /\ \A k \in 1..Len(Conv.entries) :
               /\ Conv.entries[k].timestamp = None
               /\ Conv.entries[k].metadata = None
               /\ Conv.entries[k].entry_type.kind
                    \in {"SystemMessage", "UserMessage", "AssistantMessage",
                         "ToolUse"}
        /\ (NonWhitespace(logs) = {} => Conv.entries = <<>>)

\* C7 witness: a payload was cut out of a line in which a multi-byte
\* character stands before the first colon.
C7_Witness ==
    /\ ReturnedOk
    /\ \E k \in ToolUseEntries :
           LET c == Conv.entries[k].content IN
           \E i \in 1..(FirstIndex(c, ":") - 1) : Utf8Len(c[i]) > 1

\* C10: the entries of a blob a + "\n" + b are the entries of a followed by
\* the entries of b.
C10_LinesAreIndependent ==
    Returned =>
        \A i \in 1..Len(logs) :
            logs[i] = "\n" =>
                LET a == normalize_logs(executor, SubSeq(logs, 1, i - 1),
                                        worktree_path)
                    b == normalize_logs(executor, SubSeq(logs, i + 1, Len(logs)),
                                        worktree_path)
                IN /\ conversation.value.tag = "Ok"
                   /\ a.tag = "Ok"
                   /\ b.tag = "Ok"
                   /\ Conv.entries = a.value.entries \o b.value.entries

\* C10 witness: a blob was split at a line feed with entries on both sides
\* and a blank line on one of them.
C10_Witness ==
    /\ ReturnedOk
    /\ \E i \in 1..Len(logs) :
           /\ logs[i] = "\n"
           /\ NonBlankStarts(SubSeq(logs, 1, i - 1)) # {}
           /\ NonBlankStarts(SubSeq(logs, i + 1, Len(logs))) # {}
           /\ Cardinality(LineStarts(logs)) > Len(Conv.entries)

-----------------------------------------------------------------------------
(* Properties of make_path_relative (SpecPath). *)

\* the maximal run without a separator that starts at position i of p
PieceAt(p, i) ==
    LET seps == {j \in i..Len(p) : p[j] = Sep} IN
    IF seps = {} THEN SubSeq(p, i, Len(p))
    ELSE SubSeq(p, i, (CHOOSE j \in seps : \A k \in seps : j <= k) - 1)

\* positions at which a component of p other than "." starts
ComponentStarts(p) ==
    {i \in 1..Len(p) :
        /\ p[i] # Sep
        /\ (i = 1 \/ p[i - 1] = Sep)
        /\ PieceAt(p, i) # <<".">>}

\* the components of p other than the root, in order
ComponentNames(p) ==
    [k \in 1..Cardinality(ComponentStarts(p)) |->
        PieceAt(p, Nth(ComponentStarts(p), k))]

\* root is absolute and its components are the first components of p
IsComponentPrefix(root, p) ==
    /\ ~IsRelative(root)
    /\ Len(ComponentNames(root)) <= Len(ComponentNames(p))
    /\ SubSeq(ComponentNames(p), 1, Len(ComponentNames(root)))
         = ComponentNames(root)

\* p from the start of its n+1-st component to the end of its last one
FromComponent(p, n) ==
    LET starts == ComponentStarts(p)
        count == Cardinality(starts)
    IN IF count <= n THEN <<>>
       ELSE LET last == Nth(starts, count) IN
            SubSeq(p, Nth(starts, n + 1), last + Len(PieceAt(p, last)) - 1)

\* what make_path_relative returns, by components
RelativeByComponents(p, root) ==
    IF IsRelative(p) THEN p
    ELSE IF IsComponentPrefix(root, p)
      THEN FromComponent(p, Len(ComponentNames(root)))
    ELSE p

\* what the prefix rule read on the text of the path gives
RelativeByText(p, root) ==
    IF IsRelative(p) THEN p
    ELSE IF StartsWith(p, root)
      THEN LET rest == SubSeq(p, Len(root) + 1, Len(p)) IN
           IF rest # <<>> /\ Head(rest) = Sep THEN Tail(rest) ELSE rest
    ELSE p

\* the paths of the FileRead and FileWrite entries of the file log
EntryPaths ==
    [k \in 1..Len(Conv.entries) |-> Conv.entries[k].entry_type.action_type.path]

-----------------------------------------------------------------------------
(* Properties of spawn and spawn_followup (SpecSpawn). *)

\* positions of the launcher starts in the calls of the current invocation
Starts == {i \in 1..Len(calls) : calls[i].fn = "CommandRunner::start"}

\* positions of the task lookups
Lookups == {i \in 1..Len(calls) : calls[i].fn = "Task::find_by_id"}

\* C8: spawn looks the task up before it starts the launcher; a lookup that
\* finds nothing or fails returns the error at once with no start; every
\* invocation starts the launcher at most once and a failed start is
\* returned without retry.
C8_LookupBeforeStartNoRetry ==
    /\ Cardinality(Starts) <= 1
    /\ op = "spawn" =>
           /\ Len(calls) >= 1
           /\ Lookups = {1}
           /\ \A i \in Starts : i > 1 /\ calls[1].result = "Ok(Some)"
           /\ calls[1].result = "Ok(None)" =>
                  /\ pc \in {"returned", "idle"}
                  /\ ret = Some(Err([kind |-> "TaskNotFound"]))
           /\ calls[1].result = "Err" =>
                  /\ pc \in {"returned", "idle"}
                  /\ ret.some /\ ret.value.tag = "Err"
    /\ op = "spawn_followup" => Lookups = {} /\ Cardinality(Starts) = 1
    /\ \A i \in Starts :
           calls[i].result = "Err" =>
               /\ i = Len(calls)
               /\ pc \in {"returned", "idle"}
               /\ ret.some
               /\ ret.value.tag = "Err"
               /\ ret.value.error.kind = "SpawnFailed"

\* C8 witness: a second invocation, a spawn, failed to start its process
\* after a successful lookup.
C8_Witness ==
    /\ pc = "returned"
    /\ ncalls = 2
    /\ op = "spawn"
    /\ Len(calls) = 2
    /\ calls[2] = StartCall("Err")
    /\ ret.value.tag = "Err"

\* the spawn failure the current invocation returned
SpawnFailure == ret.value.error

FailedToStart ==
    /\ pc = "returned"
    /\ ret.some
    /\ ret.value.tag = "Err"
    /\ ret.value.error.kind = "SpawnFailed"

\* C9: a start failure of spawn and of spawn_followup is wrapped with the
\* executor, the task identifier and title, and the phase.
C9_SpawnFailureNamesExecutorTaskPhase ==
    FailedToStart =>
        LET ctx == SpawnFailure.context IN
        /\ ctx.executor_type = executor.executor_type
        /\ ctx.task_id = Some(task_id)
        /\ ctx.task_title.some
        /\ tasks[task_id].some =>
               ctx.task_title.value = tasks[task_id].value.title
        /\ ctx.additional_context
             = Some(<<executor.executor_type,
                      IF op = "spawn" THEN " CLI execution for new task"
                                      ELSE " CLI followup execution">>)

====
